---- MODULE Spec2Model ----
(***************************************************************************)
(* The command-line gcd calculator of 01_a_tour_of_rust/gcd/src/main.rs:   *)
(* `main` (argument parsing, the usage check, the left fold, the report)   *)
(* and `gcd` (the assertion, the Euclidean loop, the return), as one       *)
(* sequential state machine whose program counter walks the source lines.  *)
(*                                                                         *)
(* Text (argument tokens, output lines) is a sequence of one-character     *)
(* strings, so parsing and formatting are computed digit by digit.         *)
(***************************************************************************)
EXTENDS Integers, Sequences, FiniteSets, TLC

(* ------------------------------ bounds -------------------------------- *)

\* Arguments 0..MaxVal are enumerated exhaustively (as decimal tokens).
MaxVal == 9

\* Longest argument list enumerated exhaustively.
MaxArgs == 3

\* Width of the unsigned integer type.  The program's type is u64; TLC's
\* integers are 32 bits wide, so the width is scaled down.  Only the
\* overflow check of the parser depends on it.
U64_BITS == 16

U64_MAX == 2 ^ U64_BITS - 1

\* Exit status of a Rust process whose main thread panicked.
PANIC_EXIT == 101

\* Exit status passed to std::process::exit in the usage branch.
USAGE_EXIT == 1

\* Exit status of a Rust process whose main returned.
SUCCESS_EXIT == 0

\* exit_status while the process is still running.
RUNNING == -1

(* ------------------------------- text --------------------------------- *)

Digits == <<"0", "1", "2", "3", "4", "5", "6", "7", "8", "9">>

IsDigit(c) == \E k \in 1..10 : Digits[k] = c

\* char::to_digit(10) of a decimal digit.
DigitVal(c) == (CHOOSE k \in 1..10 : Digits[k] = c) - 1

RECURSIVE DisplayPos(_)
\* The decimal digits of v > 0, most significant first.
DisplayPos(v) ==
    IF v = 0 THEN <<>> ELSE Append(DisplayPos(v \div 10), Digits[(v % 10) + 1])

\* `{}` of a u64 (fmt::Display): decimal, no sign, no leading zeros.
Display(v) == IF v = 0 THEN <<"0">> ELSE DisplayPos(v)

RECURSIVE DebugItems(_, _)
\* The elements of a vector from index k on, separated by ", ".
DebugItems(v, k) ==
    IF k > Len(v) THEN <<>>
    ELSE Display(v[k])
         \o (IF k < Len(v) THEN <<",", " ">> ELSE <<>>)
         \o DebugItems(v, k + 1)

\* `{:?}` of a Vec<u64> (fmt::Debug): "[n1, n2, ...]".
DebugVec(v) == <<"[">> \o DebugItems(v, 1) \o <<"]">>

RECURSIVE ParseDigits(_, _, _)
\* The digit loop of u64::from_str: checked multiply by 10, checked add.
ParseDigits(src, k, acc) ==
    IF k > Len(src) THEN [ok |-> TRUE, val |-> acc, kind |-> "none"]
    ELSE IF ~IsDigit(src[k]) THEN [ok |-> FALSE, val |-> 0, kind |-> "InvalidDigit"]
    ELSE IF acc * 10 > U64_MAX THEN [ok |-> FALSE, val |-> 0, kind |-> "PosOverflow"]
    ELSE IF acc * 10 + DigitVal(src[k]) > U64_MAX
         THEN [ok |-> FALSE, val |-> 0, kind |-> "PosOverflow"]
    ELSE ParseDigits(src, k + 1, acc * 10 + DigitVal(src[k]))

\* u64::from_str(&arg): Ok(val) or Err(ParseIntError { kind }).  An empty
\* string is Empty; a lone sign is InvalidDigit; one leading "+" is
\* skipped; "-" is not a digit of an unsigned type.
from_str(src) ==
    IF Len(src) = 0 THEN [ok |-> FALSE, val |-> 0, kind |-> "Empty"]
    ELSE IF Len(src) = 1 /\ src[1] \in {"+", "-"}
         THEN [ok |-> FALSE, val |-> 0, kind |-> "InvalidDigit"]
    ELSE IF src[1] = "+" THEN ParseDigits(src, 2, 0)
    ELSE ParseDigits(src, 1, 0)

\* The Debug text of a ParseIntError's kind.
KindText(kind) ==
    CASE kind = "Empty" -> <<"E", "m", "p", "t", "y">>
      [] kind = "InvalidDigit" ->
            <<"I", "n", "v", "a", "l", "i", "d", "D", "i", "g", "i", "t">>
      [] kind = "PosOverflow" ->
            <<"P", "o", "s", "O", "v", "e", "r", "f", "l", "o", "w">>

\* The panic message of Result::expect("error parsing argument") on
\* Err(e): the given text, ": ", then e's Debug text.
ExpectMsg(kind) ==
    <<"e", "r", "r", "o", "r", " ", "p", "a", "r", "s", "i", "n", "g", " ",
      "a", "r", "g", "u", "m", "e", "n", "t">>
    \o <<":", " ">>
    \o <<"P", "a", "r", "s", "e", "I", "n", "t", "E", "r", "r", "o", "r", " ",
         "{", " ", "k", "i", "n", "d", ":", " ">>
    \o KindText(kind)
    \o <<" ", "}">>

\* The line written by writeln!(std::io::stderr(), ...).
UsageMsg ==
    <<"U", "s", "a", "g", "e", ":", " ", "g", "c", "d", " ",
      "N", "U", "M", "B", "E", "R", " ", ".", ".", ".">>

\* The panic message of assert!(n != 0 && m != 0).
AssertMsg ==
    <<"a", "s", "s", "e", "r", "t", "i", "o", "n", " ", "f", "a", "i", "l",
      "e", "d", ":", " ", "n", " ", "!", "=", " ", "0", " ", "&", "&", " ",
      "m", " ", "!", "=", " ", "0">>

\* The panic message of `%` with a zero divisor.
RemZeroMsg ==
    <<"a", "t", "t", "e", "m", "p", "t", " ", "t", "o", " ", "c", "a", "l",
      "c", "u", "l", "a", "t", "e", " ", "t", "h", "e", " ", "r", "e", "m",
      "a", "i", "n", "d", "e", "r", " ", "w", "i", "t", "h", " ", "a", " ",
      "d", "i", "v", "i", "s", "o", "r", " ", "o", "f", " ", "z", "e", "r",
      "o">>

\* The line written by println! on success.
ReportLine(nums, res) ==
    <<"T", "h", "e", " ", "g", "r", "e", "a", "t", "e", "d", " ",
      "c", "o", "m", "m", "o", "n", " ", "d", "i", "v", "i", "s", "o", "r",
      " ", "o", "f", " ">>
    \o DebugVec(nums)
    \o <<" ", "i", "s", " ">>
    \o Display(res)

(* ------------------------------ inputs -------------------------------- *)

\* Tokens that are not plain small numbers: a word, the empty string, a
\* number with a plus sign, a number beyond U64_MAX.
OddTokens ==
    { <<"a", "b", "c">>, <<>>, <<"+", "5">>, <<"9", "9", "9", "9", "9", "9">> }

Tokens == { Display(v) : v \in 0..MaxVal } \cup OddTokens

RECURSIVE ListsUpTo(_)
\* Every argument list of at most k tokens.
ListsUpTo(k) ==
    IF k = 0 THEN { <<>> }
    ELSE LET shorter == ListsUpTo(k - 1)
         IN  shorter \cup { Append(l, t) : l \in { s \in shorter : Len(s) = k - 1 },
                                           t \in Tokens }

\* The invocations of test_gcd and of the documented examples.
ExampleLists ==
    { << Display(14), Display(15) >>,
      << Display(2 * 3 * 5 * 11 * 17), Display(3 * 7 * 11 * 13 * 19) >>,
      << Display(12), Display(18) >>,
      << Display(42) >>,
      << Display(12), <<"a", "b", "c">> >> }

ArgLists == ListsUpTo(MaxArgs) \cup ExampleLists

(* ------------------------------- gcd ---------------------------------- *)

\* assert!(n != 0 && m != 0)
gcd_assert(gn, gm) == gn # 0 /\ gm # 0

\* while m != 0
gcd_while(gn, gm) == gm # 0

\* A swap that forgets the temporary: n = m is lost, both end as old n.
gcd_swap_no_temp(gn, gm) == IF gm < gn THEN <<gn, gn>> ELSE <<gn, gm>>

\* A swap that assigns n first: both end as old m.
gcd_swap_n_first(gn, gm) == IF gm < gn THEN <<gm, gm>> ELSE <<gn, gm>>

\* The swap taken when n < m instead of when m < n.
gcd_swap_flipped(gn, gm) == IF gn < gm THEN <<gm, gn>> ELSE <<gn, gm>>

\* if m < n { let t = m; m = n; n = t; }  -- the new <<n, m>>.
gcd_swap(gn, gm) == IF gm < gn THEN <<gm, gn>> ELSE <<gn, gm>>

\* The remainder stored in n instead of m.
gcd_rem_into_n(gn, gm) == <<gm % gn, gm>>

\* m = m % n  -- the new <<n, m>>; n # 0 is the caller's to check.
gcd_rem(gn, gm) == <<gn, gm % gn>>

\* One pass through the loop body: the swap, then the remainder.
gcd_body(gn, gm) ==
    LET s == gcd_swap(gn, gm) IN gcd_rem(s[1], s[2])

RECURSIVE gcd_loop(_, _)
\* The loop of gcd run to its exit; the value of n it leaves.
gcd_loop(gn, gm) ==
    IF gcd_while(gn, gm)
    THEN LET r == gcd_body(gn, gm) IN gcd_loop(r[1], r[2])
    ELSE gn

\* gcd(n, m) as a function of its operands, where the assertion passes.
gcd(gn, gm) == gcd_loop(gn, gm)

(* ------------------------------ state --------------------------------- *)

VARIABLES
    args,         \* std::env::args().skip(1): the argument tokens
    pc,           \* the source position of the next step
    argi,         \* index of the next token of the `for arg` loop
    numbers,      \* the vector of parsed numbers
    d,            \* the running result of the fold
    j,            \* index into numbers of the next m of the fold loop
    n,            \* gcd's first local
    m,            \* gcd's second local
    stdout,       \* lines written to standard output
    stderr,       \* lines written to standard error
    exit_status,  \* the process's exit status, RUNNING until it ends
    calls         \* how many times gcd has been entered

vars == <<args, pc, argi, numbers, d, j, n, m, stdout, stderr, exit_status, calls>>

\* The process ends with `status`, after writing `line` to standard error.
Die(status, line) ==
    /\ pc' = "exit"
    /\ exit_status' = status
    /\ stderr' = Append(stderr, line)

Init ==
    /\ args \in ArgLists
    /\ pc = "parse"
    /\ argi = 1
    /\ numbers = <<>>
    /\ d = 0
    /\ j = 1
    /\ n = 0
    /\ m = 0
    /\ stdout = <<>>
    /\ stderr = <<>>
    /\ exit_status = RUNNING
    /\ calls = 0

(* ------------------------------- main --------------------------------- *)

\* numbers.push(u64::from_str(&arg).expect(..)) where from_str is Ok.
ParseArg ==
    /\ pc = "parse"
    /\ argi <= Len(args)
    /\ from_str(args[argi]).ok
    /\ numbers' = Append(numbers, from_str(args[argi]).val)
    /\ argi' = argi + 1
    /\ UNCHANGED <<args, pc, d, j, n, m, stdout, stderr, exit_status, calls>>

\* A parse failure that drops the argument and goes on.
ParseFailSkip ==
    /\ pc = "parse"
    /\ argi <= Len(args)
    /\ ~from_str(args[argi]).ok
    /\ argi' = argi + 1
    /\ UNCHANGED <<args, pc, numbers, d, j, n, m, stdout, stderr, exit_status, calls>>

\* The same statement where from_str is Err: expect panics.
ParseFail ==
    /\ pc = "parse"
    /\ argi <= Len(args)
    /\ ~from_str(args[argi]).ok
    /\ Die(PANIC_EXIT, ExpectMsg(from_str(args[argi]).kind))
    /\ UNCHANGED <<args, argi, numbers, d, j, n, m, stdout, calls>>

\* The `for arg` loop runs out of arguments.
ParseEnd ==
    /\ pc = "parse"
    /\ argi > Len(args)
    /\ pc' = "check"
    /\ UNCHANGED <<args, argi, numbers, d, j, n, m, stdout, stderr, exit_status, calls>>

\* The usage branch without its exit: main goes on to numbers[0], which
\* panics on the empty vector.
UsageNoExit ==
    /\ pc = "check"
    /\ Len(numbers) = 0
    /\ pc' = "exit"
    /\ exit_status' = PANIC_EXIT
    /\ stderr' = stderr \o <<UsageMsg, <<"i", "n", "d", "e", "x">> >>
    /\ UNCHANGED <<args, argi, numbers, d, j, n, m, stdout, calls>>

\* if numbers.len() == 0 { writeln!(stderr, usage); exit(1) }
Usage ==
    /\ pc = "check"
    /\ Len(numbers) = 0
    /\ Die(USAGE_EXIT, UsageMsg)
    /\ UNCHANGED <<args, argi, numbers, d, j, n, m, stdout, calls>>

\* The fold started over the whole vector, &numbers[0..].
StartFoldFromFirst ==
    /\ pc = "check"
    /\ Len(numbers) # 0
    /\ d' = numbers[1]
    /\ j' = 1
    /\ pc' = "fold"
    /\ UNCHANGED <<args, argi, numbers, n, m, stdout, stderr, exit_status, calls>>

\* let mut d = numbers[0]; the fold loop starts at &numbers[1..].
StartFold ==
    /\ pc = "check"
    /\ Len(numbers) # 0
    /\ d' = numbers[1]
    /\ j' = 2
    /\ pc' = "fold"
    /\ UNCHANGED <<args, argi, numbers, n, m, stdout, stderr, exit_status, calls>>

\* The call made with the accumulator's initial value instead of d.
FoldCallStale ==
    /\ pc = "fold"
    /\ j <= Len(numbers)
    /\ n' = numbers[1]
    /\ m' = numbers[j]
    /\ calls' = calls + 1
    /\ pc' = "gcd_assert"
    /\ UNCHANGED <<args, argi, numbers, d, j, stdout, stderr, exit_status>>

\* for m in &numbers[1..] { .. gcd(d, *m) }: the call, binding n and m.
FoldCall ==
    /\ pc = "fold"
    /\ j <= Len(numbers)
    /\ n' = d
    /\ m' = numbers[j]
    /\ calls' = calls + 1
    /\ pc' = "gcd_assert"
    /\ UNCHANGED <<args, argi, numbers, d, j, stdout, stderr, exit_status>>

\* The fold loop is over: println!(..) and main returns.
Report ==
    /\ pc = "fold"
    /\ j > Len(numbers)
    /\ stdout' = Append(stdout, ReportLine(numbers, d))
    /\ exit_status' = SUCCESS_EXIT
    /\ pc' = "exit"
    /\ UNCHANGED <<args, argi, numbers, d, j, n, m, stderr, calls>>

(* ---------------------------- gcd, stepped ---------------------------- *)

\* The assertion holds.
GcdAssertOk ==
    /\ pc = "gcd_assert"
    /\ gcd_assert(n, m)
    /\ pc' = "gcd_while"
    /\ UNCHANGED <<args, argi, numbers, d, j, n, m, stdout, stderr, exit_status, calls>>

\* The assertion fails: panic.
GcdAssertFail ==
    /\ pc = "gcd_assert"
    /\ ~gcd_assert(n, m)
    /\ Die(PANIC_EXIT, AssertMsg)
    /\ UNCHANGED <<args, argi, numbers, d, j, n, m, stdout, calls>>

\* The loop test: into the body, or out to the return.
GcdWhile ==
    /\ pc = "gcd_while"
    /\ pc' = IF gcd_while(n, m) THEN "gcd_if" ELSE "gcd_ret"
    /\ UNCHANGED <<args, argi, numbers, d, j, n, m, stdout, stderr, exit_status, calls>>

\* The conditional swap.
GcdSwap ==
    /\ pc = "gcd_if"
    /\ n' = gcd_swap(n, m)[1]
    /\ m' = gcd_swap(n, m)[2]
    /\ pc' = "gcd_rem"
    /\ UNCHANGED <<args, argi, numbers, d, j, stdout, stderr, exit_status, calls>>

\* The remainder; `%` panics on a zero divisor.
GcdRem ==
    /\ pc = "gcd_rem"
    /\ IF n = 0
       THEN /\ Die(PANIC_EXIT, RemZeroMsg)
            /\ UNCHANGED <<n, m>>
       ELSE /\ n' = gcd_rem(n, m)[1]
            /\ m' = gcd_rem(n, m)[2]
            /\ pc' = "gcd_while"
            /\ UNCHANGED <<stderr, exit_status>>
    /\ UNCHANGED <<args, argi, numbers, d, j, stdout, calls>>

\* gcd returns n; the caller stores it in d and moves to the next m.
GcdReturn ==
    /\ pc = "gcd_ret"
    /\ d' = n
    /\ j' = j + 1
    /\ pc' = "fold"
    /\ UNCHANGED <<args, argi, numbers, n, m, stdout, stderr, exit_status, calls>>

Next ==
    \/ ParseArg
    \/ ParseFail
    \/ ParseEnd
    \/ Usage
    \/ StartFold
    \/ FoldCall
    \/ Report
    \/ GcdAssertOk
    \/ GcdAssertFail
    \/ GcdWhile
    \/ GcdSwap
    \/ GcdRem
    \/ GcdReturn

Spec == Init /\ [][Next]_vars

\* The program is one thread that runs whenever it can take a step.
FairSpec == Spec /\ WF_vars(Next)

(* ------------------------ vocabulary of the claims -------------------- *)

Done == pc = "exit"

\* Every argument parses as an unsigned integer of the type's width.
AllParse == \A k \in 1..Len(args) : from_str(args[k]).ok

\* The values of the arguments, where they all parse.
ArgValues == [k \in 1..Len(args) |-> from_str(args[k]).val]

\* The first argument that does not parse, where there is one.
FirstBad ==
    CHOOSE k \in 1..Len(args) :
        /\ ~from_str(args[k]).ok
        /\ \A h \in 1..(k - 1) : from_str(args[h]).ok

MinOf(a, b) == IF a < b THEN a ELSE b

MaxOf(a, b) == IF a < b THEN b ELSE a

RECURSIVE MinOfSeq(_, _)
MinOfSeq(v, k) ==
    IF k = Len(v) THEN v[k] ELSE MinOf(v[k], MinOfSeq(v, k + 1))

\* g divides every element of v.
DividesAll(g, v) == \A k \in 1..Len(v) : v[k] % g = 0

\* g is the greatest common divisor of the nonzero numbers of v, by the
\* definition: a common divisor, and no larger number is one.
IsGcdOfAll(g, v) ==
    /\ g > 0
    /\ DividesAll(g, v)
    /\ \A h \in (g + 1)..MinOfSeq(v, 1) : ~DividesAll(h, v)

\* `part` occurs in `line` as a run of consecutive characters.
Contains(line, part) ==
    \E s \in 0..(Len(line) - Len(part)) :
        SubSeq(line, s + 1, s + Len(part)) = part

StartsWith(line, part) ==
    Len(line) >= Len(part) /\ SubSeq(line, 1, Len(part)) = part

EndsWith(line, part) ==
    /\ Len(line) >= Len(part)
    /\ SubSeq(line, Len(line) - Len(part) + 1, Len(line)) = part

\* " is g", the end of a report of g.
Reports(g) == <<" ", "i", "s", " ">> \o Display(g)

\* gcd has been entered and its assertion has passed.
InGcd == pc \in {"gcd_while", "gcd_if", "gcd_rem", "gcd_ret"}

\* gcd is about to return n from the call gcd(d, numbers[j]).
Returning == pc = "gcd_ret" /\ d # 0 /\ numbers[j] # 0

(* -------------------------------- C1 ---------------------------------- *)

\* C1: for nonzero a and b, the value gcd(a, b) returns divides a, divides
\* b, and no larger number divides both; gcd(14, 15) = 1 and
\* gcd(2*3*5*11*17, 3*7*11*13*19) = 33.
C1_GcdIsGreatest ==
    Returning =>
        /\ IsGcdOfAll(n, <<d, numbers[j]>>)
        /\ (d = 14 /\ numbers[j] = 15 => n = 1)
        /\ (d = 2 * 3 * 5 * 11 * 17 /\ numbers[j] = 3 * 7 * 11 * 13 * 19 => n = 33)

C1_Witness ==
    /\ Returning
    /\ d = 2 * 3 * 5 * 11 * 17
    /\ numbers[j] = 3 * 7 * 11 * 13 * 19
    /\ n = 33

(* -------------------------------- C2 ---------------------------------- *)

\* The arguments are a non-empty list of nonzero numbers.
NonzeroList ==
    /\ Len(args) >= 1
    /\ AllParse
    /\ \A k \in 1..Len(args) : ArgValues[k] # 0

\* C2: for a non-empty list of nonzero arguments the fold ends with d the
\* greatest common divisor of all of them, and that d is what is reported,
\* with exit status 0; the arguments 12, 18 report 6.
C2_FoldIsGcdOfAll ==
    (Done /\ NonzeroList) =>
        /\ exit_status = 0
        /\ IsGcdOfAll(d, ArgValues)
        /\ Len(stdout) = 1
        /\ EndsWith(stdout[1], Reports(d))
        /\ (args = <<Display(12), Display(18)>> => d = 6)

C2_Witness ==
    /\ Done
    /\ Len(args) = 3
    /\ NonzeroList
    /\ ArgValues[1] = 4 /\ ArgValues[2] = 2 /\ ArgValues[3] = 4
    /\ d = 2
    /\ exit_status = 0

(* -------------------------------- C3 ---------------------------------- *)

\* C3: in every run in which every argument parses (zero included), gcd is
\* never called with a zero operand, the assertion never fails, and the run
\* ends by printing a result with exit status 0.
C3_ZeroNeverReachesGcd ==
    (Len(args) >= 1 /\ AllParse) =>
        /\ (pc = "gcd_assert" => n # 0 /\ m # 0)
        /\ (Done => exit_status = 0 /\ Len(stdout) = 1)

(* -------------------------------- C4 ---------------------------------- *)

\* "error parsing argument: ParseIntError { kind: "
ParsePanicPrefix ==
    <<"e", "r", "r", "o", "r", " ", "p", "a", "r", "s", "i", "n", "g", " ",
      "a", "r", "g", "u", "m", "e", "n", "t", ":", " ",
      "P", "a", "r", "s", "e", "I", "n", "t", "E", "r", "r", "o", "r", " ",
      "{", " ", "k", "i", "n", "d", ":", " ">>

UsageText ==
    <<"U", "s", "a", "g", "e", ":", " ", "g", "c", "d", " ",
      "N", "U", "M", "B", "E", "R", " ", ".", ".", ".">>

\* C5: run with no arguments, the driver writes the usage message to the
\* error stream and exits with status 1; it never calls gcd and writes
\* nothing to standard output.
C5_NoArgumentsUsage ==
    Len(args) = 0 =>
        /\ calls = 0
        /\ stdout = <<>>
        /\ ~InGcd /\ pc # "gcd_assert"
        /\ (Done => exit_status = 1 /\ stderr = <<UsageText>>)

C5_Witness ==
    /\ Done
    /\ Len(args) = 0
    /\ exit_status = 1
    /\ stderr = <<UsageText>>

(* -------------------------------- C6 ---------------------------------- *)

\* C6: with a single argument that parses to v (0 included) the fold makes
\* no iteration, gcd is never called, v is reported and the exit status is
\* 0; the argument 42 reports 42.
C6_SingleArgument ==
    (Len(args) = 1 /\ AllParse) =>
        /\ calls = 0
        /\ ~InGcd /\ pc # "gcd_assert"
        /\ (Done =>
              /\ exit_status = 0
              /\ d = ArgValues[1]
              /\ Len(stdout) = 1
              /\ EndsWith(stdout[1], Reports(ArgValues[1]))
              /\ (args = <<Display(42)>> => d = 42))

C6_Witness ==
    /\ Done
    /\ args = << <<"0">> >>
    /\ d = 0
    /\ calls = 0
    /\ exit_status = 0
    /\ Len(stdout) = 1

(* -------------------------------- C7 ---------------------------------- *)

\* "The greatest common divisor of "
GreatestText ==
    <<"T", "h", "e", " ", "g", "r", "e", "a", "t", "e", "s", "t", " ",
      "c", "o", "m", "m", "o", "n", " ", "d", "i", "v", "i", "s", "o", "r",
      " ", "o", "f", " ">>

\* C7: on a successful run the one line on standard output is exactly
\* "The greatest common divisor of [n1, n2, ...] is g": the parsed
\* arguments in their order, and the fold's result.
C7_ReportText ==
    (Done /\ exit_status = 0) =>
        stdout = << GreatestText \o DebugVec(ArgValues) \o Reports(d) >>

(* -------------------------------- C8 ---------------------------------- *)

\* C8: for nonzero a and b, gcd(a, b) = gcd(b, a): the value the call
\* gcd(d, numbers[j]) returns is the value of gcd on the operands
\* exchanged.
C8_Commutative ==
    Returning => n = gcd(numbers[j], d)

\* A call whose first operand is the larger (the loop swaps at once),
\* while the exchanged call enters the loop without a swap.
C8_Witness ==
    /\ Returning
    /\ d = 4
    /\ numbers[j] = 3
    /\ n = 1
    /\ gcd(3, 4) = 1

(* -------------------------------- C9 ---------------------------------- *)

\* C9 as stated (its reason for termination): every iteration of the loop
\* leaves max(n, m) strictly smaller than it found it, the iteration
\* entered with n = m included.
C9_MaxStrictlyDecreases ==
    pc = "gcd_if" =>
        LET b == gcd_body(n, m) IN MaxOf(b[1], b[2]) < MaxOf(n, m)

\* C9 as amended: the loop terminates for nonzero operands; an iteration
\* entered with n # m leaves max(n, m) strictly smaller, and the iteration
\* entered with n = m leaves max(n, m) as it was and m = 0, so the loop
\* exits at its next test.
C9_Terminates ==
    /\ [](pc = "gcd_if" =>
            LET b == gcd_body(n, m)
            IN  IF n = m
                THEN b = <<n, 0>> /\ MaxOf(b[1], b[2]) = MaxOf(n, m)
                ELSE MaxOf(b[1], b[2]) < MaxOf(n, m))
    /\ (pc = "gcd_while" ~> pc = "gcd_ret")

\* An iteration entered with n = m whose body leaves the maximum alone.
C9_Witness ==
    /\ pc = "gcd_if"
    /\ n = m
    /\ n = 3
    /\ gcd_body(n, m) = <<3, 0>>

(* -------------------------------- C10 --------------------------------- *)

\* C10: wherever gcd is past its assertion, n is not zero; at the
\* remainder step n is not zero and n <= m (so `m % n` never divides by
\* zero); the loop exits with m = 0 and the value returned is not zero.
C10_NNonzero ==
    /\ InGcd => n # 0
    /\ pc = "gcd_rem" => n # 0 /\ n <= m
    /\ pc = "gcd_ret" => m = 0 /\ n # 0
    /\ \A k \in 1..Len(stderr) : stderr[k] # RemZeroMsg

\* The remainder step reached right after a swap.
C10_Witness ==
    /\ pc = "gcd_rem"
    /\ d = 5
    /\ numbers[j] = 3
    /\ n = 3
    /\ m = 5

====
